---- MODULE Spec2Model ----
(***************************************************************************)
(* WebSocket frame codec of src/ws/frame.rs: Frame::parse (decoder) and    *)
(* Frame::message (encoder), driven by a connection that appends received  *)
(* bytes to a read buffer and retries Frame::parse.                        *)
(*                                                                         *)
(* Bytes are integers 0..255, a byte buffer is a sequence of bytes.        *)
(* usize is 64 bits wide; every length of the model is far below 2^31, so  *)
(* no arithmetic of the code wraps within the model.                       *)
(***************************************************************************)
EXTENDS Integers, Sequences, FiniteSets, TLC

VARIABLES
    buf,    \* the connection's read buffer, the BytesMut handed to Frame::parse
    wire,   \* bytes written by the peer and not yet appended to buf
    queue,  \* descriptors of the frames whose bytes are in buf \o wire, in order
    res     \* the outcome of the last call of Frame::parse or Frame::message

vars == <<buf, wire, queue, res>>

-----------------------------------------------------------------------------
(* Bounds of the model *)

\* payload lengths 0..MaxSmallLen are enumerated next to the boundary lengths
MaxSmallLen == 1
\* at most MaxQueue frames are in flight (in buf \o wire) at a time
MaxQueue == 2
\* bytes arrive one at a time while fewer than PartialLimit are buffered
PartialLimit == 14

-----------------------------------------------------------------------------
(* Bytes *)

RECURSIVE xor_bits(_, _, _)
xor_bits(a, b, n) ==
    IF n = 0 THEN 0
    ELSE (((a % 2) + (b % 2)) % 2) + 2 * xor_bits(a \div 2, b \div 2, n - 1)

\* a ^ b on bytes, tabulated
XorByte == [a \in 0..255 |-> [b \in 0..255 |-> xor_bits(a, b, 8)]]

\* ws::mask::apply_mask: buf[i] ^= mask[i mod 4] (indices from 0)
apply_mask(data, mask) ==
    [i \in 1..Len(data) |-> XorByte[data[i]][mask[((i - 1) % 4) + 1]]]

\* NetworkEndian::read_uint(slice, n): the first n bytes of slice, big-endian
RECURSIVE read_uint(_, _)
read_uint(slice, n) ==
    IF n = 0 THEN 0 ELSE read_uint(slice, n - 1) * 256 + slice[n]

\* BigEndian::write_u16 / write_u64: v as n big-endian bytes
RECURSIVE write_uint(_, _)
write_uint(v, n) ==
    IF n = 0 THEN << >> ELSE Append(write_uint(v \div 256, n - 1), v % 256)

\* BytesMut::split_to(at): the first `at` bytes are split off, the rest stays
split_front(b, at) == SubSeq(b, 1, at)
split_rest(b, at) == SubSeq(b, at + 1, Len(b))

-----------------------------------------------------------------------------
(* ws::proto::OpCode *)

OpCodes == {"Continuation", "Text", "Binary", "Close", "Ping", "Pong"}

\* impl From<u8> for OpCode
OpCode_from(byte) ==
    CASE byte = 0 -> "Continuation"
      [] byte = 1 -> "Text"
      [] byte = 2 -> "Binary"
      [] byte = 8 -> "Close"
      [] byte = 9 -> "Ping"
      [] byte = 10 -> "Pong"
      [] OTHER -> "Bad"

\* impl Into<u8> for OpCode
OpCode_into(code) ==
    CASE code = "Continuation" -> 0
      [] code = "Text" -> 1
      [] code = "Binary" -> 2
      [] code = "Close" -> 8
      [] code = "Ping" -> 9
      [] code = "Pong" -> 10

-----------------------------------------------------------------------------
(* struct Frame *)

MkFrame(finished, rsv1, rsv2, rsv3, opcode, payload) ==
    [finished |-> finished, rsv1 |-> rsv1, rsv2 |-> rsv2, rsv3 |-> rsv3,
     opcode |-> opcode, payload |-> payload]

\* impl Default for Frame
Frame_default == MkFrame(TRUE, FALSE, FALSE, FALSE, "Close", << >>)

-----------------------------------------------------------------------------
(* Frame::parse(buf, server) -> Result<Option<Frame>, Error>               *)
(* An outcome is [tag, err, code, frame, buf]: tag "None" is Ok(None),      *)
(* "Frame" is Ok(Some(frame)), "Err" is Err(..) with the error named by    *)
(* err and the number its message carries in code; buf is the buffer as    *)
(* the call leaves it.                                                     *)

\* mutant of NeedMoreData: the 2 header bytes are consumed as they are read
NeedMoreData_dropsHeader(b) ==
    [tag |-> "None", err |-> "", code |-> 0, frame |-> Frame_default,
     buf |-> split_rest(b, 2)]

\* return Ok(None): nothing has been split off the buffer
NeedMoreData(b) ==
    [tag |-> "None", err |-> "", code |-> 0, frame |-> Frame_default, buf |-> b]

\* mutant of ProtocolError: the error path clears the buffer
ProtocolError_clears(err, code, b) ==
    [tag |-> "Err", err |-> err, code |-> code, frame |-> Frame_default,
     buf |-> << >>]

\* return Err(Error::new(ErrorKind::Other, ..)) with the buffer as it is then
ProtocolError(err, code, b) ==
    [tag |-> "Err", err |-> err, code |-> code, frame |-> Frame_default, buf |-> b]

\* return Ok(Some(frame))
ParsedFrame(frame, b) ==
    [tag |-> "Frame", err |-> "", code |-> 0, frame |-> frame, buf |-> b]

\* mutant of check_masking: only the server checks the MASK bit
check_masking_serverOnly(masked, server) ==
    IF ~masked /\ server THEN "UnmaskedFromClient" ELSE ""

\* check masking: the error the MASK bit raises for the role, "" when none
check_masking(masked, server) ==
    IF ~masked /\ server THEN "UnmaskedFromClient"
    ELSE IF masked /\ ~server THEN "MaskedFromServer"
    ELSE ""

\* let length = if len == 126 {..} else if len == 127 {..} else {..}
\* with idx = 2 and size = buf.len() - 2 on entry; ok = FALSE is Ok(None)
resolve_length(b, len) ==
    LET size == Len(b) - 2
    IN  IF len = 126 THEN
            IF size < 2 THEN [ok |-> FALSE, length |-> 0, idx |-> 2, size |-> size]
            ELSE [ok |-> TRUE, length |-> read_uint(split_rest(b, 2), 2),
                  idx |-> 2 + 2, size |-> size - 2]
        ELSE IF len = 127 THEN
            IF size < 8 THEN [ok |-> FALSE, length |-> 0, idx |-> 2, size |-> size]
            ELSE [ok |-> TRUE, length |-> read_uint(split_rest(b, 2), 8),
                  idx |-> 2 + 8, size |-> size - 8]
        ELSE [ok |-> TRUE, length |-> len, idx |-> 2, size |-> size]

\* let mask = if server {..} else { None }; None is the empty sequence
read_mask(b, server, idx, size) ==
    IF server THEN
        IF size < 4 THEN [ok |-> FALSE, mask |-> << >>, idx |-> idx, size |-> size]
        ELSE [ok |-> TRUE, mask |-> SubSeq(b, idx + 1, idx + 4),
              idx |-> idx + 4, size |-> size - 4]
    ELSE [ok |-> TRUE, mask |-> << >>, idx |-> idx, size |-> size]

\* mutant of payload_missing: size <= length
payload_missing_inclusive(size, length) == size <= length

\* if size < length { return Ok(None) }
payload_missing(size, length) == size < length

\* mutant of get_body: one byte too many is split off behind the payload
get_body_offByOne(b, idx, length) ==
    LET after == split_rest(b, idx)
    IN  [data |-> split_front(after, length), rest |-> split_rest(after, length + 1)]

\* get body: buf.split_to(idx); data = buf.split_to(length) (or empty)
get_body(b, idx, length) ==
    LET after == split_rest(b, idx)
    IN  IF length > 0
        THEN [data |-> split_front(after, length), rest |-> split_rest(after, length)]
        ELSE [data |-> << >>, rest |-> after]

\* mutant of bad_opcode: the check is missing
bad_opcode_never(opcode) == FALSE

\* Disallow bad opcode
bad_opcode(opcode) == opcode = "Bad"

\* mutant of control_check: an oversized Close is passed on as it is
control_check_noMorph(opcode, length) ==
    IF opcode \in {"Ping", "Pong"} /\ length > 125 THEN "err" ELSE "ok"

\* control frames must have length <= 125: "err", "default" or "ok"
control_check(opcode, length) ==
    IF opcode \in {"Ping", "Pong"} /\ length > 125 THEN "err"
    ELSE IF opcode = "Close" /\ length > 125 THEN "default"
    ELSE "ok"

\* unmask
unmask(data, mask) == IF mask # << >> THEN apply_mask(data, mask) ELSE data

Frame_parse(b, server) ==
    IF Len(b) < 2 THEN NeedMoreData(b)
    ELSE
    LET first == b[1]
        second == b[2]
        finished == first \div 128 = 1
        masked == second \div 128 = 1
        mismatch == check_masking(masked, server)
    IN  IF mismatch # "" THEN ProtocolError(mismatch, 0, b)
        ELSE
        LET rsv1 == (first \div 64) % 2 = 1
            rsv2 == (first \div 32) % 2 = 1
            rsv3 == (first \div 16) % 2 = 1
            opcode == OpCode_from(first % 16)
            len == second % 128
            lr == resolve_length(b, len)
        IN  IF ~lr.ok THEN NeedMoreData(b)
            ELSE
            LET mr == read_mask(b, server, lr.idx, lr.size)
            IN  IF ~mr.ok THEN NeedMoreData(b)
                ELSE IF payload_missing(mr.size, lr.length) THEN NeedMoreData(b)
                ELSE
                LET body == get_body(b, mr.idx, lr.length)
                    ctl == control_check(opcode, lr.length)
                IN  IF bad_opcode(opcode)
                    THEN ProtocolError("InvalidOpcode", first % 16, body.rest)
                    ELSE IF ctl = "err"
                    THEN ProtocolError("OversizedControlFrame", lr.length, body.rest)
                    ELSE IF ctl = "default"
                    THEN ParsedFrame(Frame_default, body.rest)
                    ELSE ParsedFrame(
                             MkFrame(finished, rsv1, rsv2, rsv3, opcode,
                                     unmask(body.data, mr.mask)),
                             body.rest)

-----------------------------------------------------------------------------
(* Frame::message(data, code, finished, genmask) -> Binary                 *)
(* A BytesMut under construction is [data, cap, panic]: its bytes, its     *)
(* capacity, and whether an operation on it has panicked. The mask key     *)
(* rand::random() draws is the parameter mask.                             *)

\* BytesMut::with_capacity(n): the capacity is the one asked for
with_capacity(n) == [data |-> << >>, cap |-> n, panic |-> FALSE]

\* BufMut::put_slice: assert!(self.remaining_mut() >= src.len()), then append
put_slice(bm, src) ==
    IF bm.panic \/ bm.cap - Len(bm.data) < Len(src)
    THEN [bm EXCEPT !.panic = TRUE]
    ELSE [bm EXCEPT !.data = @ \o src]

\* a write into bytes_mut()[..src.len()], the slice of the spare capacity, and
\* advance_mut(src.len()): the slice index panics past the spare capacity
write_advance(bm, src) ==
    IF bm.panic \/ bm.cap - Len(bm.data) < Len(src)
    THEN [bm EXCEPT !.panic = TRUE]
    ELSE [bm EXCEPT !.data = @ \o src]

\* let mut buf = if payload_len < 126 {..} else if payload_len <= 65_535 {..} else {..}
message_header(one, two, payload_len, p_len) ==
    IF payload_len < 126 THEN
        put_slice(with_capacity(p_len + 2), <<one, two + payload_len>>)
    ELSE IF payload_len <= 65535 THEN
        write_advance(put_slice(with_capacity(p_len + 4), <<one, two + 126>>),
                      write_uint(payload_len, 2))
    ELSE
        write_advance(put_slice(with_capacity(p_len + 8), <<one, two + 127>>),
                      write_uint(payload_len, 8))

Frame_message(payload, code, finished, genmask, mask) ==
    LET one == IF finished THEN 128 + OpCode_into(code) ELSE OpCode_into(code)
        payload_len == Len(payload)
        two == IF genmask THEN 128 ELSE 0
        p_len == IF genmask THEN payload_len + 4 ELSE payload_len
        hdr == message_header(one, two, payload_len, p_len)
    IN  IF genmask
        THEN \* buf_mut[..4] and buf_mut[4..payload_len+4] index the spare
             \* capacity; the bytes masked behind payload_len + 4 are never
             \* made part of the buffer
             IF hdr.panic \/ hdr.cap - Len(hdr.data) < payload_len + 4
             THEN [hdr EXCEPT !.panic = TRUE]
             ELSE write_advance(hdr, mask \o apply_mask(payload, mask))
        ELSE put_slice(hdr, payload)

-----------------------------------------------------------------------------
(* The peer and the byte stream *)

\* the payload bytes the peer sends: n bytes that vary with the position
Payload(n) == [i \in 1..n |-> (i * 37 + 12) % 256]

\* the mask key of the frames written by hand (tests::test_parse_frame_mask)
RawKey == <<48, 48, 48, 49>>

\* the mask keys rand::random() may return to Frame::message
Keys == { RawKey, <<255, 128, 15, 85>> }

\* what the peer knows of a frame it wrote: the header bits, whether a mask key
\* follows, the number of extended-length bytes (0, 2 or 8), the unmasked
\* payload, the length of the whole frame on the wire, and whether
\* Frame::message built it
Desc(fin, rsv1, rsv2, rsv3, nibble, masked, ext, payload, msg) ==
    [fin |-> fin, rsv1 |-> rsv1, rsv2 |-> rsv2, rsv3 |-> rsv3, nibble |-> nibble,
     masked |-> masked, ext |-> ext, length |-> Len(payload), payload |-> payload,
     total |-> 2 + ext + (IF masked THEN 4 ELSE 0) + Len(payload), msg |-> msg]

\* the stream held no frame (total = 0)
NoDesc ==
    [fin |-> FALSE, rsv1 |-> FALSE, rsv2 |-> FALSE, rsv3 |-> FALSE, nibble |-> 0,
     masked |-> FALSE, ext |-> 0, length |-> 0, payload |-> << >>, total |-> 0,
     msg |-> FALSE]

Bit(b, weight) == IF b THEN weight ELSE 0

\* the bytes of a frame written by hand, as the tests build their buffers
RawBytes(d) ==
    << Bit(d.fin, 128) + Bit(d.rsv1, 64) + Bit(d.rsv2, 32) + Bit(d.rsv3, 16) + d.nibble,
       Bit(d.masked, 128)
         + (IF d.ext = 0 THEN d.length ELSE IF d.ext = 2 THEN 126 ELSE 127) >>
    \o write_uint(d.length, d.ext)
    \o (IF d.masked THEN RawKey \o apply_mask(d.payload, RawKey) ELSE d.payload)

\* FIN and RSV1..3 of the hand-written frames
RawFlags == { <<TRUE, FALSE, FALSE, FALSE>>, <<FALSE, TRUE, FALSE, TRUE>>,
              <<FALSE, FALSE, TRUE, FALSE>> }

\* their opcode nibbles: the six opcodes and two unassigned values
RawNibbles == {0, 1, 2, 3, 8, 9, 10, 15}

\* their length encodings <<extended-length bytes, payload length>>; an
\* extended length need not be minimal
RawLayouts ==
    { <<0, n>> : n \in 0..MaxSmallLen } \cup { <<0, 125>> }
    \cup { <<2, MaxSmallLen>>, <<2, 126>>, <<8, MaxSmallLen>>, <<8, 130>> }

RawFrames ==
    { Desc(fl[1], fl[2], fl[3], fl[4], nib, m, lay[1], Payload(lay[2]), FALSE) :
        fl \in RawFlags, nib \in RawNibbles, m \in BOOLEAN, lay \in RawLayouts }

\* the frames the peer may write right behind another one
TrailFrames ==
    { Desc(TRUE, FALSE, FALSE, FALSE, 1, FALSE, 0, Payload(1), FALSE),
      Desc(FALSE, FALSE, FALSE, FALSE, 2, TRUE, 0, Payload(MaxSmallLen), FALSE) }

\* payload lengths around the 16-bit limit of the 2-byte extended length
BigLens == {65535, 65536}

\* the arguments of the peer's calls of Frame::message:
\* <<payload length, code, finished, genmask>>
MessageArgs ==
    ((0..MaxSmallLen \cup {125, 126}) \X OpCodes \X BOOLEAN \X BOOLEAN)
    \cup (BigLens \X {"Binary"} \X {TRUE} \X BOOLEAN)

-----------------------------------------------------------------------------
(* State *)

\* the arguments of a call of Frame::message: the payload is Payload(len)
NoArgs == [len |-> 0, code |-> "Text", finished |-> FALSE,
           genmask |-> FALSE, mask |-> << >>]

\* no call has returned since the stream last changed
Idle ==
    [op |-> "none", tag |-> "", server |-> FALSE, err |-> "", code |-> 0,
     frame |-> Frame_default, before |-> << >>, cur |-> NoDesc,
     args |-> NoArgs, out |-> << >>]

Init ==
    /\ buf = << >>
    /\ wire = << >>
    /\ queue = << >>
    /\ res = Idle

\* no byte has been written to the stream yet
Fresh == queue = << >> /\ res = Idle

\* the peer writes a frame by hand as the first frame of the stream
Inject(d) ==
    /\ Fresh
    /\ wire' = wire \o RawBytes(d)
    /\ queue' = Append(queue, d)
    /\ res' = Idle
    /\ UNCHANGED buf

\* the peer writes a further frame, behind at most MaxQueue - 1 others
InjectNext(d) ==
    /\ ~Fresh
    /\ Len(queue) < MaxQueue
    /\ wire' = wire \o RawBytes(d)
    /\ queue' = Append(queue, d)
    /\ res' = Idle
    /\ UNCHANGED buf

\* the peer calls Frame::message and writes what it returns; a panic writes
\* nothing. A message is the first frame of the stream.
Send(n, code, finished, genmask, mask) ==
    /\ Fresh
    /\ \E payload \in {Payload(n)} :
       \E bm \in {Frame_message(payload, code, finished, genmask, mask)} :
           /\ res' = [Idle EXCEPT
                        !.op = "message",
                        !.tag = IF bm.panic THEN "Panic" ELSE "Bytes",
                        !.args = [len |-> n, code |-> code,
                                  finished |-> finished, genmask |-> genmask,
                                  mask |-> mask],
                        !.out = IF bm.panic THEN << >> ELSE bm.data]
           /\ IF bm.panic
              THEN UNCHANGED <<wire, queue>>
              ELSE /\ wire' = wire \o bm.data
                   /\ queue' = Append(queue,
                          Desc(finished, FALSE, FALSE, FALSE, OpCode_into(code),
                               genmask,
                               Len(bm.data) - 2 - (IF genmask THEN 4 ELSE 0) - n,
                               payload, TRUE))
    /\ UNCHANGED buf

\* bytes of the head frame that are still on the wire
HeadRest == IF queue = << >> THEN 0 ELSE queue[1].total - Len(buf)

\* the sizes of the next read: one byte while the buffer is short, the head
\* frame short of one byte, the head frame, or all that is on the wire
Chunks ==
    { k \in {1, HeadRest - 1, HeadRest, Len(wire)} :
        /\ k >= 1
        /\ k <= Len(wire)
        /\ k = 1 => (Len(buf) < PartialLimit \/ k \in {HeadRest - 1, HeadRest, Len(wire)}) }

\* the connection reads the next k bytes: buf.extend(..)
Feed ==
    \E k \in Chunks :
        /\ buf' = buf \o SubSeq(wire, 1, k)
        /\ wire' = SubSeq(wire, k + 1, Len(wire))
        /\ res' = Idle
        /\ UNCHANGED queue

\* the connection calls Frame::parse(&mut buf, server)
Parse(server) ==
    \E r \in {Frame_parse(buf, server)} :
        /\ buf' = r.buf
        /\ queue' = IF Len(r.buf) < Len(buf) /\ queue # << >> THEN Tail(queue) ELSE queue
        /\ res' = [Idle EXCEPT
                     !.op = "parse", !.tag = r.tag, !.server = server,
                     !.err = r.err, !.code = r.code, !.frame = r.frame,
                     !.before = buf,
                     !.cur = IF queue = << >> THEN NoDesc ELSE queue[1]]
        /\ UNCHANGED wire

Next ==
    \/ \E d \in RawFrames : Inject(d)
    \/ \E d \in TrailFrames : InjectNext(d)
    \/ \E a \in MessageArgs, mask \in Keys : Send(a[1], a[2], a[3], a[4], mask)
    \/ Feed
    \/ \E server \in BOOLEAN : Parse(server)

Spec == Init /\ [][Next]_vars

-----------------------------------------------------------------------------
(* Claims. After a call of Frame::parse, res.before is the buffer it was     *)
(* given, buf the buffer it left, and res.cur the frame the peer wrote at   *)
(* the front of the stream.                                                 *)

Parsed == res.op = "parse"
HeadFrame == res.cur.total > 0
MaskConsistent == res.cur.masked = res.server
Complete == Len(res.before) >= res.cur.total
MaskErrors == {"UnmaskedFromClient", "MaskedFromServer"}

\* C1: whenever Frame::parse returns NeedMoreData, the buffer afterwards is
\* byte for byte the buffer before the call, for both roles.
C1_NeedMoreDataKeepsBuffer ==
    (Parsed /\ res.tag = "None") => buf = res.before

\* C1 witness: a masked frame of 130 payload bytes, one byte short, parsed
\* by the server.
C1_Witness ==
    /\ Parsed /\ res.tag = "None" /\ res.server
    /\ res.cur.length = 130
    /\ Len(res.before) = res.cur.total - 1
    /\ buf # << >>

\* C2: whenever Frame::parse returns a Frame, exactly 2 + extended-length
\* bytes + (4 iff server) + length bytes have left the front of the buffer,
\* what remains is the untouched rest of the stream, and the frame is the
\* one at the front of the stream (frames come one per call, in wire order).
C2_FrameConsumesOneFrame ==
    (Parsed /\ res.tag = "Frame") =>
        LET n == 2 + res.cur.ext + (IF res.server THEN 4 ELSE 0) + res.cur.length
        IN  /\ HeadFrame
            /\ Len(res.before) >= n
            /\ Len(buf) = Len(res.before) - n
            /\ buf = SubSeq(res.before, n + 1, Len(res.before))
            /\ \/ res.frame.payload = res.cur.payload
               \/ res.cur.nibble = 8 /\ res.cur.length > 125

\* C2 witness: a frame with a 2-byte extended length is returned to the
\* server while bytes of the next frame stay in the buffer.
C2_Witness ==
    /\ Parsed /\ res.tag = "Frame" /\ res.server
    /\ res.cur.ext = 2
    /\ buf # << >>
    /\ Len(queue) = 1

\* C3: while fewer bytes than the whole frame (header, extended length, mask
\* key, payload) are buffered, a call with the role the MASK bit fits returns
\* NeedMoreData; once all are buffered it returns a Frame or an error.
C3_CompleteIffDecided ==
    (Parsed /\ HeadFrame /\ MaskConsistent) =>
        /\ ~Complete => res.tag = "None"
        /\ Complete => res.tag # "None"

\* C3 witness: a masked frame with an 8-byte extended length is decided by
\* the call made with exactly its bytes buffered.
C3_Witness ==
    /\ Parsed /\ HeadFrame /\ MaskConsistent
    /\ res.cur.ext = 8 /\ res.cur.masked /\ res.cur.length > 0
    /\ Len(res.before) = res.cur.total
    /\ res.tag = "Frame"

\* C5: with at least 2 bytes buffered, a clear MASK bit fails a server call
\* with "unmasked frame from client" and a set MASK bit fails a client call
\* with "masked frame from server", whatever the opcode, the length and the
\* bytes buffered; a MASK bit that fits the role raises neither error.
C5_RoleMaskEnforced ==
    (Parsed /\ Len(res.before) >= 2) =>
        LET maskbit == res.before[2] >= 128
        IN  /\ (res.server /\ ~maskbit) =>
                (res.tag = "Err" /\ res.err = "UnmaskedFromClient")
            /\ (~res.server /\ maskbit) =>
                (res.tag = "Err" /\ res.err = "MaskedFromServer")
            /\ (maskbit = res.server) => res.err \notin MaskErrors

\* C5 witness: only the 2 header bytes of an unmasked frame with an
\* unassigned opcode are buffered and the server call fails.
C5_Witness ==
    /\ Parsed /\ res.server
    /\ Len(res.before) = 2 /\ res.cur.total > 2
    /\ res.cur.nibble = 3 /\ ~res.cur.masked
    /\ res.err = "UnmaskedFromClient"

\* C6: on a completely buffered frame whose MASK bit fits the role, a Ping
\* or Pong of more than 125 payload bytes fails as an oversized control
\* frame, a Close of more than 125 payload bytes returns the default frame
\* (finished, no RSV bit, Close, empty payload), and control frames of at
\* most 125 bytes and data frames come back with their own flags and payload.
C6_ControlLengthPolicy ==
    (Parsed /\ HeadFrame /\ MaskConsistent /\ Complete) =>
        /\ (res.cur.nibble \in {9, 10} /\ res.cur.length > 125) =>
              (res.tag = "Err" /\ res.err = "OversizedControlFrame")
        /\ (res.cur.nibble = 8 /\ res.cur.length > 125) =>
              /\ res.tag = "Frame"
              /\ res.frame.finished /\ ~res.frame.rsv1 /\ ~res.frame.rsv2
              /\ ~res.frame.rsv3
              /\ res.frame.opcode = "Close" /\ res.frame.payload = << >>
        /\ (\/ res.cur.nibble \in {8, 9, 10} /\ res.cur.length <= 125
            \/ res.cur.nibble \in {0, 1, 2}) =>
              /\ res.tag = "Frame"
              /\ res.frame.finished = res.cur.fin
              /\ res.frame.rsv1 = res.cur.rsv1
              /\ res.frame.rsv2 = res.cur.rsv2
              /\ res.frame.rsv3 = res.cur.rsv3
              /\ res.frame.payload = res.cur.payload

\* C6 witness: a Close frame of 130 payload bytes, FIN clear and RSV1 set on
\* the wire, has been parsed into a frame.
C6_Witness ==
    /\ Parsed /\ res.tag = "Frame"
    /\ res.cur.nibble = 8 /\ res.cur.length = 130
    /\ ~res.cur.fin /\ res.cur.rsv1

\* C7 as stated: whenever Frame::parse returns a fatal error, the buffer
\* afterwards is byte for byte the buffer before the call.
C7_ErrorKeepsBuffer ==
    (Parsed /\ res.tag = "Err") => buf = res.before

\* C7 amended: a role/mask error leaves the buffer as it was; an invalid
\* opcode or an oversized Ping/Pong is reported after the whole frame has
\* been removed from the front of the buffer, the rest of the stream staying.
C7_ErrorBufferEffect ==
    (Parsed /\ res.tag = "Err") =>
        /\ res.err \in MaskErrors => buf = res.before
        /\ res.err \notin MaskErrors =>
              /\ Complete
              /\ buf = SubSeq(res.before, res.cur.total + 1, Len(res.before))

\* C7 witness: an invalid opcode is reported, its frame (with payload) is
\* gone from the buffer and bytes of the next frame are left.
C7_Witness ==
    /\ Parsed /\ res.tag = "Err" /\ res.err = "InvalidOpcode"
    /\ res.cur.length > 0
    /\ buf # << >>
    /\ Len(buf) = Len(res.before) - res.cur.total

\* C8: a returned Frame never carries Bad: its opcode is the one of the wire
\* nibble, 0, 1, 2, 8, 9, 10 for Continuation, Text, Binary, Close, Ping,
\* Pong; a completely buffered frame whose MASK bit fits the role and whose
\* nibble is any other value fails with the invalid-opcode error carrying
\* the nibble, whatever its length.
C8_NoBadOpcode ==
    /\ (Parsed /\ res.tag = "Frame") =>
          /\ res.frame.opcode \in OpCodes
          /\ \/ res.cur.nibble = 0 /\ res.frame.opcode = "Continuation"
             \/ res.cur.nibble = 1 /\ res.frame.opcode = "Text"
             \/ res.cur.nibble = 2 /\ res.frame.opcode = "Binary"
             \/ res.cur.nibble = 8 /\ res.frame.opcode = "Close"
             \/ res.cur.nibble = 9 /\ res.frame.opcode = "Ping"
             \/ res.cur.nibble = 10 /\ res.frame.opcode = "Pong"
    /\ (Parsed /\ HeadFrame /\ MaskConsistent /\ Complete
          /\ res.cur.nibble \notin {0, 1, 2, 8, 9, 10}) =>
          /\ res.tag = "Err" /\ res.err = "InvalidOpcode"
          /\ res.code = res.cur.nibble

\* C8 witness: a frame with nibble 15 and 130 payload bytes has been
\* rejected as an invalid opcode.
C8_Witness ==
    /\ Parsed /\ res.err = "InvalidOpcode"
    /\ res.cur.nibble = 15 /\ res.cur.length = 130
    /\ res.code = 15

-----------------------------------------------------------------------------
(* Claims about Frame::message. After a call, res.args are its arguments    *)
(* (with the mask key drawn), ArgPayload its payload and res.out the bytes  *)
(* it returned.                                                             *)

Sent == res.op = "message"
ControlCodes == {"Close", "Ping", "Pong"}
ArgPayload == Payload(res.args.len)

\* the bytes of the length field for a payload of n bytes, after byte 0
LengthField(n, maskbit) ==
    IF n < 126 THEN <<maskbit + n>>
    ELSE IF n <= 65535 THEN <<maskbit + 126, n \div 256, n % 256>>
    ELSE <<maskbit + 127, 0, 0, 0, 0, (n \div 16777216) % 256,
           (n \div 65536) % 256, (n \div 256) % 256, n % 256>>

\* C9: Frame::message returns, for every payload length n, opcode and flags,
\* byte 0 = (finished ? 0x80 : 0) | opcode, then the length field (n, or 126
\* and 2 big-endian bytes, or 127 and 8 big-endian bytes, bit 7 of byte 1
\* set iff with_mask), and without mask the payload unmodified: n + 2,
\* n + 4 or n + 10 bytes (plus 4 when masked).
C9_MessageLayout ==
    Sent =>
        LET a == res.args
            n == a.len
            field == LengthField(n, IF a.genmask THEN 128 ELSE 0)
            hdr == 1 + Len(field)
        IN  /\ res.tag = "Bytes"
            /\ Len(res.out) = hdr + (IF a.genmask THEN 4 ELSE 0) + n
            /\ res.out[1] = (IF a.finished THEN 128 ELSE 0) + OpCode_into(a.code)
            /\ SubSeq(res.out, 2, hdr) = field
            /\ ~a.genmask => SubSeq(res.out, hdr + 1, hdr + n) = ArgPayload

\* C4: for all payloads p, opcodes o and flags f, parsing
\* message(p, o, f, with_mask = false) as a client returns a Frame with
\* finished = f, opcode = o and payload = p. Stated for the frames the
\* decoder's control-frame policy lets through (C6): data frames of any
\* length and control frames of at most 125 payload bytes.
C4_UnmaskedRoundTrip ==
    (Sent /\ ~res.args.genmask
          /\ (res.args.code \in ControlCodes => res.args.len <= 125)) =>
        /\ res.tag = "Bytes"
        /\ \E r \in {Frame_parse(res.out, FALSE)} :
              /\ r.tag = "Frame"
              /\ r.frame.finished = res.args.finished
              /\ r.frame.opcode = res.args.code
              /\ r.frame.payload = ArgPayload

\* C10: for every payload p, opcode o and flag f (control opcodes with at
\* most 125 payload bytes) and whichever key is drawn,
\* message(p, o, f, with_mask = true) writes the key right after the length
\* field, then p[i] XOR key[i mod 4]; parsing it as a server returns a Frame
\* with finished = f, opcode = o, payload = p and leaves the buffer empty.
C10_MaskedRoundTrip ==
    (Sent /\ res.args.genmask
          /\ (res.args.code \in ControlCodes => res.args.len <= 125)) =>
        LET a == res.args
            n == a.len
            hdr == 1 + Len(LengthField(n, 128))
        IN  /\ res.tag = "Bytes"
            /\ SubSeq(res.out, hdr + 1, hdr + 4) = a.mask
            /\ Len(res.out) = hdr + 4 + n
            /\ \A i \in 1..n :
                  res.out[hdr + 4 + i] = XorByte[ArgPayload[i]][a.mask[((i - 1) % 4) + 1]]
            /\ \E r \in {Frame_parse(res.out, TRUE)} :
                  /\ r.tag = "Frame"
                  /\ r.frame.finished = a.finished
                  /\ r.frame.opcode = a.code
                  /\ r.frame.payload = ArgPayload
                  /\ r.buf = << >>

====
